---- MODULE Spec2Model ----
(***************************************************************************)
(* Zone-based detection counting of yolo_runner.py: normalization of the   *)
(* zone records, the per-frame counting of process_frame_counts, and the   *)
(* image / video run of main().                                            *)
(*                                                                         *)
(* Python dicts are functions whose DOMAIN is the set of keys present.     *)
(* An exception that no handler catches ends the run with status           *)
(* "crashed"; a return from main() ends it with status "returned".         *)
(***************************************************************************)
EXTENDS Integers, Sequences, FiniteSets, TLC

VARIABLES
    pc,                     \* position of main()
    status,                 \* "running" | "returned" | "crashed"
    args,                   \* command line and file system: input kind, model, media, zone file
    zones,                  \* the parsed zone file (list of raw records)
    normalized_zones,
    selected_zones,
    cap_open,               \* cv2.VideoCapture opened and not released
    writer_open,            \* cv2.VideoWriter opened and not released
    frames_read,            \* number of frames cap.read() has returned
    cumulative_zone_counts,
    cumulative_total,
    overall_class_counts,   \* [defined, d]: the name exists in locals() only once assigned
    last,                   \* the locals of the latest call of process_frame_counts
    frame_sums,             \* history: key-wise sum of the per-frame zone counts of the calls made
    out                     \* the JSON objects printed so far

vars == <<pc, status, args, zones, normalized_zones, selected_zones, cap_open,
          writer_open, frames_read, cumulative_zone_counts, cumulative_total,
          overall_class_counts, last, frame_sums, out>>

\* Bounds of the model.
MaxZones == 2
MaxDets == 2
MaxFrames == 2

----------------------------------------------------------------------------
\* Python dict operations.

EmptyDict == [k \in {} |-> 0]

\* d.get(k, dflt)
Get(d, k, dflt) == IF k \in DOMAIN d THEN d[k] ELSE dflt

\* d[k] = d.get(k, 0) + n
Inc(d, k, n) == [x \in (DOMAIN d) \cup {k} |-> IF x = k THEN Get(d, k, 0) + n ELSE d[x]]

\* for cls, cnt in d.items(): acc[cls] = acc.get(cls, 0) + cnt
MergeInto(acc, d) == [x \in (DOMAIN acc) \cup (DOMAIN d) |-> Get(acc, x, 0) + Get(d, x, 0)]

RECURSIVE SumOver(_, _)
SumOver(d, ks) ==
    IF ks = {} THEN 0
    ELSE LET k == CHOOSE x \in ks : TRUE IN d[k] + SumOver(d, ks \ {k})

\* sum(d.values())
SumValues(d) == SumOver(d, DOMAIN d)

Min(a, b) == IF a < b THEN a ELSE b
Max(a, b) == IF a < b THEN b ELSE a

\* Sequences over S of length at most n.
SeqsUpTo(S, n) == UNION {[1..k -> S] : k \in 0..n}

----------------------------------------------------------------------------
\* Raw zone records, as json.load returns them.  A record is a map (dict),
\* a sequence (list) or a scalar; keys is the set of keys a map carries.
\* An element of a sequence is a number or a point [x, y].

Num(n) == [t |-> "num", v |-> <<n>>]
Pt(x, y) == [t |-> "pt", v |-> <<x, y>>]

RawMap(keys, name, selected, points, x, y, w, h) ==
    [j |-> "map", keys |-> keys, name |-> name, selected |-> selected,
     points |-> points, x |-> x, y |-> y, w |-> w, h |-> h, elems |-> <<>>]

RawSeq(elems) ==
    [j |-> "seq", keys |-> {}, name |-> "", selected |-> TRUE,
     points |-> <<>>, x |-> 0, y |-> 0, w |-> 0, h |-> 0, elems |-> elems]

RawScalar ==
    [j |-> "scalar", keys |-> {}, name |-> "", selected |-> TRUE,
     points |-> <<>>, x |-> 0, y |-> 0, w |-> 0, h |-> 0, elems |-> <<>>]

\* Normalized zones: the dicts main() appends to normalized_zones.  A rect
\* carries the key coords and no pts, a poly the key pts and no coords.
RectZone(coords, name, selected) ==
    [type |-> "rect", coords |-> coords, pts |-> <<>>, name |-> name, selected |-> selected]

PolyZone(pts, name, selected) ==
    [type |-> "poly", coords |-> <<>>, pts |-> pts, name |-> name, selected |-> selected]

\* z.get(key, 0) of the rect fallback; int() is the identity on the integers used here.
MapGet(z, key, val) == IF key \in z.keys THEN val ELSE 0

AllNum(elems) == \A i \in 1..Len(elems) : elems[i].t = "num"
AllPt(elems) == \A i \in 1..Len(elems) : elems[i].t = "pt"

\* One iteration of the normalization loop: the zone appended ("zone"),
\* nothing appended ("skip"), or an exception leaving main ("raise").
NormalizeRecord(z) ==
    IF z.j = "map" THEN
        IF z.keys \cap {"points", "pts"} # {} /\ Len(z.points) > 2
        THEN [res |-> "zone",
              zone |-> PolyZone(z.points, IF "name" \in z.keys THEN z.name ELSE "",
                                IF "selected" \in z.keys THEN z.selected ELSE TRUE)]
        ELSE LET x == MapGet(z, "x", z.x)
                 y == MapGet(z, "y", z.y)
                 w == MapGet(z, "w", z.w)
                 h == MapGet(z, "h", z.h)
             IN [res |-> "zone",
                 zone |-> RectZone(<<x, y, x + w, y + h>>,
                                   IF "name" \in z.keys THEN z.name ELSE "",
                                   IF "selected" \in z.keys THEN z.selected ELSE TRUE)]
    ELSE IF z.j = "seq" /\ Len(z.elems) >= 4 THEN
        \* map(int, (z[0], z[1], z[2], z[3])): int() of a list raises TypeError
        IF AllNum(SubSeq(z.elems, 1, 4))
        THEN [res |-> "zone",
              zone |-> RectZone(<<z.elems[1].v[1], z.elems[2].v[1],
                                  z.elems[3].v[1], z.elems[4].v[1]>>, "", TRUE)]
        ELSE [res |-> "raise", zone |-> RectZone(<<>>, "", TRUE)]
    ELSE IF z.j = "seq" /\ Len(z.elems) > 2 THEN
        \* np.array(z): a list of points has shape (n, 2); a list of numbers has
        \* shape (n,), so pts.shape[1] raises IndexError; a mixed list raises
        \* ValueError; both are caught by the except of this branch
        IF AllPt(z.elems)
        THEN [res |-> "zone",
              zone |-> PolyZone([i \in 1..Len(z.elems) |-> z.elems[i].v], "", TRUE)]
        ELSE [res |-> "skip", zone |-> RectZone(<<>>, "", TRUE)]
    ELSE [res |-> "skip", zone |-> RectZone(<<>>, "", TRUE)]

\* The normalization loop over the zone file: the list built, and whether an
\* exception left the loop (the records after it are never reached).
RECURSIVE NormalizeFrom(_, _, _)
NormalizeFrom(zs, i, acc) ==
    IF i > Len(zs) THEN [raised |-> FALSE, zones |-> acc]
    ELSE LET r == NormalizeRecord(zs[i])
         IN IF r.res = "raise" THEN [raised |-> TRUE, zones |-> acc]
            ELSE IF r.res = "zone" THEN NormalizeFrom(zs, i + 1, Append(acc, r.zone))
            ELSE NormalizeFrom(zs, i + 1, acc)

NormalizeZones(zs) == NormalizeFrom(zs, 1, <<>>)

\* [zz for zz in normalized_zones if zz.get('selected', True)]
SelectedOf(nz) == SelectSeq(nz, LAMBDA zz : zz.selected)

----------------------------------------------------------------------------
\* process_frame_counts.  A detection is [cls, box]: the class name and the
\* box x1, y1, x2, y2 after map(int, box.xyxy[0]).

Det(cls, x1, y1, x2, y2) == [cls |-> cls, box |-> <<x1, y1, x2, y2>>]

\* cx, cy = int((x1 + x2) / 2), int((y1 + y2) / 2); pixel coordinates are not
\* negative, where int() of the quotient is the floor.
Center(box) == <<(box[1] + box[3]) \div 2, (box[2] + box[4]) \div 2>>

\* min(zx1, zx2) < cx < max(zx1, zx2) and min(zy1, zy2) < cy < max(zy1, zy2)
InRect(coords, cx, cy) ==
    /\ Min(coords[1], coords[3]) < cx /\ cx < Max(coords[1], coords[3])
    /\ Min(coords[2], coords[4]) < cy /\ cy < Max(coords[2], coords[4])

\* One edge v0 -> v of cv2.pointPolygonTest(pts, (x, y), False) on integer
\* points: "on" when the point lies on the edge, else whether the edge counts
\* as a crossing of the ray from the point.
EdgeTest(v0, v, x, y) ==
    IF \/ (v0[2] <= y /\ v[2] <= y)
       \/ (v0[2] > y /\ v[2] > y)
       \/ (v0[1] < x /\ v[1] < x)
    THEN IF y = v[2] /\ (\/ x = v[1]
                         \/ (y = v0[2] /\ (\/ (v0[1] <= x /\ x <= v[1])
                                           \/ (v[1] <= x /\ x <= v0[1]))))
         THEN "on" ELSE "skip"
    ELSE LET d == (y - v0[2]) * (v[1] - v0[1]) - (x - v0[1]) * (v[2] - v0[2])
             dist == IF v[2] < v0[2] THEN 0 - d ELSE d
         IN IF d = 0 THEN "on" ELSE IF dist > 0 THEN "cross" ELSE "skip"

\* cv2.pointPolygonTest(pts, (x, y), False): 1 inside, 0 on an edge, -1 outside.
PointPolygonTest(pts, x, y) ==
    LET n == Len(pts)
        e(i) == EdgeTest(pts[IF i = 1 THEN n ELSE i - 1], pts[i], x, y)
    IN IF \E i \in 1..n : e(i) = "on" THEN 0
       ELSE IF Cardinality({i \in 1..n : e(i) = "cross"}) % 2 = 0 THEN -1 ELSE 1

\* The membership test of the assignment loop for one zone.
ZoneHit(z, cx, cy) ==
    IF z.type = "rect" THEN InRect(z.coords, cx, cy)
    ELSE IF z.type = "poly" THEN PointPolygonTest(z.pts, cx, cy) >= 0
    ELSE FALSE

\* for i, z in enumerate(zones): every zone is tested, none ends the loop.
AssignZones(zone_counts, zs, cls, cx, cy) ==
    [i \in 1..Len(zs) |->
        IF ZoneHit(zs[i], cx, cy) THEN Inc(zone_counts[i], cls, 1) ELSE zone_counts[i]]

\* The body of the loop over the boxes for one detection.
DetStep(st, det, zs) ==
    LET c == Center(det.box)
    IN [class_counts |-> Inc(st.class_counts, det.cls, 1),
        zone_counts |-> AssignZones(st.zone_counts, zs, det.cls, c[1], c[2])]

RECURSIVE DetLoop(_, _, _, _)
DetLoop(dets, k, zs, st) ==
    IF k > Len(dets) THEN st
    ELSE DetLoop(dets, k + 1, zs, DetStep(st, dets[k], zs))

\* The zone totals overlay: x1, y1, x2, y2 = z unpacks the four KEYS of the
\* zone dict (strings), so x1 + 4 raises TypeError as soon as one class count
\* of one zone is to be drawn; with every zone count empty nothing is drawn.
OverlayRaises(zs, zone_counts) ==
    \E i \in 1..Len(zs) : DOMAIN zone_counts[i] # {}

\* The call: the locals when it ends, and whether it ended by raising.
\* draw_zones_on_frame and the drawing of boxes and labels only paint the
\* frame; the outline of a zone is drawn inside a try/except and changes no count.
process_frame_counts(dets, zs) ==
    LET st == DetLoop(dets, 1, zs,
                      [class_counts |-> EmptyDict,
                       zone_counts |-> [i \in 1..Len(zs) |-> EmptyDict]])
        raised == OverlayRaises(zs, st.zone_counts)
    IN [called |-> TRUE, dets |-> dets, raised |-> raised,
        zone_counts |-> st.zone_counts, class_counts |-> st.class_counts,
        total |-> IF raised THEN 0 ELSE SumValues(st.class_counts)]

NoCall ==
    [called |-> FALSE, dets |-> <<>>, raised |-> FALSE,
     zone_counts |-> <<>>, class_counts |-> EmptyDict, total |-> 0]

----------------------------------------------------------------------------
\* The inputs the model draws from.

Triangle == <<<<0, 0>>, <<10, 0>>, <<0, 10>>>>

ZA == RawSeq(<<Num(0), Num(0), Num(10), Num(10)>>)
ZARev == RawSeq(<<Num(10), Num(10), Num(0), Num(0)>>)
ZB == RawMap({"name", "x", "y", "w", "h"}, "B", TRUE, <<>>, 5, 5, 10, 10)
ZT == RawMap({"name", "points"}, "T", TRUE, Triangle, 0, 0, 0, 0)
ZTRaw == RawSeq(<<Pt(0, 0), Pt(10, 0), Pt(0, 10)>>)
ZQuadRaw == RawSeq(<<Pt(0, 0), Pt(10, 0), Pt(10, 10), Pt(0, 10)>>)
ZUnselected == RawMap({"name", "selected", "x", "y", "w", "h"}, "U", FALSE, <<>>, 0, 0, 20, 20)
ZFive == RawSeq(<<Num(0), Num(0), Num(10), Num(10), Num(99)>>)
\* records without a usable geometry
ZNoGeometry == RawMap({"name"}, "E", TRUE, <<>>, 0, 0, 0, 0)
ZTwoPoints == RawMap({"points"}, "", TRUE, <<<<0, 0>>, <<10, 0>>>>, 0, 0, 0, 0)
ZShort == RawSeq(<<Num(1), Num(2)>>)
ZThreeNums == RawSeq(<<Num(1), Num(2), Num(3)>>)
ZMixed == RawSeq(<<Num(1), Num(2), Pt(3, 4), Num(5)>>)

ZoneRecords ==
    {ZA, ZARev, ZB, ZT, ZTRaw, ZQuadRaw, ZUnselected, ZFive,
     ZNoGeometry, ZTwoPoints, ZShort, ZThreeNums, ZMixed, RawScalar}

\* centers (7,7), (10,5), (5,0), (5,5), (20,20)
Dets ==
    {Det("car", 4, 4, 10, 10), Det("car", 8, 3, 12, 7), Det("car", 3, 0, 7, 1),
     Det("person", 2, 2, 8, 8), Det("person", 18, 18, 22, 22)}

\* The zone lists and frames of the runs of main().
RunZoneRecords == {ZA, ZT, ZUnselected, ZMixed, RawScalar}
RunDets == {Det("car", 4, 4, 10, 10), Det("person", 18, 18, 22, 22)}

\* The zone records of the runs that exercise process_frame_counts alone.
FrameZoneRecords == {ZA, ZARev, ZB, ZT, ZTRaw, ZNoGeometry}

----------------------------------------------------------------------------
\* main()

Failure(msg) ==
    [success |-> FALSE, message |-> msg, zones |-> <<>>,
     class_counts |-> EmptyDict, total |-> 0]

Success(zones_meta, class_counts, total) ==
    [success |-> TRUE, message |-> "", zones |-> zones_meta,
     class_counts |-> class_counts, total |-> total]

\* zones_meta: name and counts of every selected zone
ZonesMeta(sel, counts) ==
    [i \in 1..Len(sel) |->
        [name |-> sel[i].name,
         counts |-> IF i <= Len(counts) THEN counts[i] ELSE EmptyDict]]

Undefined == [defined |-> FALSE, d |-> EmptyDict]

\* print(json.dumps(r)); return
Emit(r) ==
    /\ out' = Append(out, r)
    /\ status' = "returned"
    /\ pc' = "done"

\* an exception no handler catches
Crash ==
    /\ status' = "crashed"
    /\ pc' = "done"
    /\ out' = out

ImageArgs ==
    [input |-> "image", model_exists |-> TRUE, media_ok |-> TRUE, zfile |-> "ok"]

InitRest ==
    /\ status = "running"
    /\ normalized_zones = <<>>
    /\ selected_zones = <<>>
    /\ cap_open = FALSE
    /\ writer_open = FALSE
    /\ frames_read = 0
    /\ cumulative_zone_counts = <<>>
    /\ cumulative_total = 0
    /\ overall_class_counts = Undefined
    /\ last = NoCall
    /\ frame_sums = <<>>
    /\ out = <<>>

Init ==
    /\ pc = "args"
    /\ args \in [input : {"none", "image", "video", "other"},
                 model_exists : BOOLEAN, media_ok : BOOLEAN,
                 zfile : {"absent", "unparseable", "ok"}]
    /\ zones = <<>>
    /\ InitRest

\* lines 90-95: without --input the help is printed and main returns
ParseArgs ==
    /\ pc = "args"
    /\ IF args.input = "none"
       THEN /\ status' = "returned"
            /\ pc' = "done"
       ELSE /\ status' = status
            /\ pc' = "model"
    /\ UNCHANGED <<args, zones, normalized_zones, selected_zones, cap_open, writer_open,
                   frames_read, cumulative_zone_counts, cumulative_total,
                   overall_class_counts, last, frame_sums, out>>

\* lines 110-114
CheckModel ==
    /\ pc = "model"
    /\ IF args.model_exists
       THEN /\ pc' = "zones"
            /\ UNCHANGED <<status, out>>
       ELSE Emit(Failure("Model file not found"))
    /\ UNCHANGED <<args, zones, normalized_zones, selected_zones, cap_open, writer_open,
                   frames_read, cumulative_zone_counts, cumulative_total,
                   overall_class_counts, last, frame_sums>>

\* lines 117-129: a missing or unparseable zone file leaves zones = []
LoadZones ==
    /\ pc = "zones"
    /\ \E zs \in IF args.zfile = "ok" THEN SeqsUpTo(RunZoneRecords, MaxZones) ELSE {<<>>} :
           zones' = zs
    /\ pc' = "normalize"
    /\ UNCHANGED <<status, args, normalized_zones, selected_zones, cap_open, writer_open,
                   frames_read, cumulative_zone_counts, cumulative_total,
                   overall_class_counts, last, frame_sums, out>>

\* lines 134-169
Normalize ==
    /\ pc = "normalize"
    /\ LET r == NormalizeZones(zones)
       IN /\ normalized_zones' = r.zones
          /\ IF r.raised
             THEN /\ Crash
                  /\ selected_zones' = selected_zones
             ELSE /\ selected_zones' = SelectedOf(r.zones)
                  /\ pc' = "dispatch"
                  /\ UNCHANGED <<status, out>>
    /\ UNCHANGED <<args, zones, cap_open, writer_open, frames_read,
                   cumulative_zone_counts, cumulative_total, overall_class_counts,
                   last, frame_sums>>

RunFrames == SeqsUpTo(RunDets, MaxDets)

\* lines 171-203: the image run, the detector reporting one of the given frames
ImageRun(frames) ==
    /\ pc = "dispatch"
    /\ args.input = "image"
    /\ IF ~args.media_ok
       THEN /\ Emit(Failure("Could not read image"))
            /\ last' = last
       ELSE \E f \in frames :
              LET r == process_frame_counts(f, selected_zones)
              IN /\ last' = r
                 /\ IF r.raised
                    THEN Crash
                    ELSE Emit(Success(ZonesMeta(selected_zones, r.zone_counts),
                                      r.class_counts, r.total))
    /\ UNCHANGED <<args, zones, normalized_zones, selected_zones, cap_open, writer_open,
                   frames_read, cumulative_zone_counts, cumulative_total,
                   overall_class_counts, frame_sums>>

ProcessImage == ImageRun(RunFrames)

\* lines 206-221: the capture and the writer are opened, the accumulators set
OpenVideo ==
    /\ pc = "dispatch"
    /\ args.input = "video"
    /\ IF ~args.media_ok
       THEN /\ Emit(Failure("Could not open video"))
            /\ UNCHANGED <<cap_open, writer_open, cumulative_zone_counts,
                           cumulative_total, frame_sums>>
       ELSE /\ cap_open' = TRUE
            /\ writer_open' = TRUE
            /\ cumulative_zone_counts' = [i \in 1..Len(selected_zones) |-> EmptyDict]
            /\ cumulative_total' = 0
            /\ frame_sums' = [i \in 1..Len(selected_zones) |-> EmptyDict]
            /\ pc' = "loop"
            /\ UNCHANGED <<status, out>>
    /\ UNCHANGED <<args, zones, normalized_zones, selected_zones, frames_read,
                   overall_class_counts, last>>

\* lines 229-244: one frame's counts folded into the running sums
Accumulate_Reset(acc, r) ==
    [total |-> acc.total + r.total,
     zone_counts |->
        [i \in 1..Len(acc.zone_counts) |->
            MergeInto(acc.zone_counts[i],
                      IF i <= Len(r.zone_counts) THEN r.zone_counts[i] ELSE EmptyDict)],
     overall |-> [defined |-> TRUE, d |-> r.class_counts]]

Accumulate(acc, r) ==
    [total |-> acc.total + r.total,
     zone_counts |->
        [i \in 1..Len(acc.zone_counts) |->
            MergeInto(acc.zone_counts[i],
                      IF i <= Len(r.zone_counts) THEN r.zone_counts[i] ELSE EmptyDict)],
     overall |->
        [defined |-> TRUE,
         d |-> MergeInto(IF acc.overall.defined THEN acc.overall.d ELSE EmptyDict,
                         r.class_counts)]]

\* lines 224-245: cap.read() returns a frame, which is counted and folded in;
\* an exception of process_frame_counts leaves main() at once
ReadFrame ==
    /\ pc = "loop"
    /\ frames_read < MaxFrames
    /\ \E f \in RunFrames :
         LET r == process_frame_counts(f, selected_zones)
             acc == Accumulate([total |-> cumulative_total,
                                zone_counts |-> cumulative_zone_counts,
                                overall |-> overall_class_counts], r)
         IN /\ last' = r
            /\ frames_read' = frames_read + 1
            /\ frame_sums' = [i \in 1..Len(frame_sums) |->
                                 MergeInto(frame_sums[i], r.zone_counts[i])]
            /\ IF r.raised
               THEN /\ Crash
                    /\ UNCHANGED <<cumulative_total, cumulative_zone_counts,
                                   overall_class_counts>>
               ELSE /\ cumulative_total' = acc.total
                    /\ cumulative_zone_counts' = acc.zone_counts
                    /\ overall_class_counts' = acc.overall
                    /\ UNCHANGED <<pc, status, out>>
    /\ UNCHANGED <<args, zones, normalized_zones, selected_zones, cap_open, writer_open>>

\* lines 225-226 and 247-255: ret is False (end of stream or a read failure),
\* the handles are released and the result printed
EndOfStream ==
    /\ pc = "loop"
    /\ cap_open' = FALSE
    /\ writer_open' = FALSE
    /\ Emit(Success(ZonesMeta(selected_zones, cumulative_zone_counts),
                    IF overall_class_counts.defined THEN overall_class_counts.d
                    ELSE EmptyDict,
                    cumulative_total))
    /\ UNCHANGED <<args, zones, normalized_zones, selected_zones, frames_read,
                   cumulative_zone_counts, cumulative_total, overall_class_counts,
                   last, frame_sums>>

\* line 257
Unsupported ==
    /\ pc = "dispatch"
    /\ args.input = "other"
    /\ Emit(Failure("Unsupported input type"))
    /\ UNCHANGED <<args, zones, normalized_zones, selected_zones, cap_open, writer_open,
                   frames_read, cumulative_zone_counts, cumulative_total,
                   overall_class_counts, last, frame_sums>>

Next ==
    \/ ParseArgs
    \/ CheckModel
    \/ LoadZones
    \/ Normalize
    \/ ProcessImage
    \/ OpenVideo
    \/ ReadFrame
    \/ EndOfStream
    \/ Unsupported

Spec == Init /\ [][Next]_vars

----------------------------------------------------------------------------
\* The normalization loop alone, on every zone file of the catalogue.

InitNorm ==
    /\ pc = "normalize"
    /\ args = ImageArgs
    /\ zones \in SeqsUpTo(ZoneRecords, MaxZones)
    /\ InitRest

NextNorm == Normalize

SpecNorm == InitNorm /\ [][NextNorm]_vars

\* The image run from the dispatch on, on every frame of the catalogue.

AllFrames == SeqsUpTo(Dets, MaxDets)

InitFrame ==
    /\ pc = "dispatch"
    /\ args = ImageArgs
    /\ zones \in SeqsUpTo(FrameZoneRecords, MaxZones)
    /\ status = "running"
    /\ normalized_zones = NormalizeZones(zones).zones
    /\ selected_zones = SelectedOf(normalized_zones)
    /\ cap_open = FALSE
    /\ writer_open = FALSE
    /\ frames_read = 0
    /\ cumulative_zone_counts = <<>>
    /\ cumulative_total = 0
    /\ overall_class_counts = Undefined
    /\ last = NoCall
    /\ frame_sums = <<>>
    /\ out = <<>>

NextFrame == ImageRun(AllFrames)

SpecFrame == InitFrame /\ [][NextFrame]_vars

----------------------------------------------------------------------------
\* Notions the properties are stated with, independent of the code's tests.

Classes == {"car", "person"}

\* number of detections of a frame that satisfy P
CountDets(dets, P(_)) == Cardinality({k \in 1..Len(dets) : P(dets[k])})

\* the point lies on the closed segment a-b
OnSegment(a, b, x, y) ==
    /\ (b[1] - a[1]) * (y - a[2]) = (b[2] - a[2]) * (x - a[1])
    /\ Min(a[1], b[1]) <= x /\ x <= Max(a[1], b[1])
    /\ Min(a[2], b[2]) <= y /\ y <= Max(a[2], b[2])

\* the reference point lies exactly on an edge (or vertex) of the zone
OnBoundary(z, x, y) ==
    IF z.type = "rect"
    THEN x \in {z.coords[1], z.coords[3]} \/ y \in {z.coords[2], z.coords[4]}
    ELSE \E i \in 1..Len(z.pts) :
            OnSegment(z.pts[i], z.pts[(i % Len(z.pts)) + 1], x, y)

\* the reference point lies in the open interior of a rect zone
StrictlyInRect(z, x, y) ==
    /\ z.type = "rect"
    /\ \E a \in {z.coords[1], z.coords[3]}, b \in {z.coords[1], z.coords[3]} :
          a < x /\ x < b
    /\ \E a \in {z.coords[2], z.coords[4]}, b \in {z.coords[2], z.coords[4]} :
          a < y /\ y < b

RunEnded == pc = "done"

----------------------------------------------------------------------------
\* C1: a video run that has read K >= 1 frames ends by emitting a result
\* in which each zone's cumulative counts are the key-wise sum of the K
\* frames' counts of that zone (K frames with one car in zone A: {car: K}).
C1_VideoSums ==
    (RunEnded /\ frames_read > 0) =>
        /\ status = "returned"
        /\ Len(out) = 1
        /\ out[1].success
        /\ \A i \in 1..Len(selected_zones) : out[1].zones[i].counts = frame_sums[i]

\* C2: for every frame and zone list the call yields the frame total, equal
\* to the number of detections, and global counts equal to the number of
\* detections of each class, whatever the zones.
C2_GlobalCounts ==
    last.called =>
        /\ ~last.raised
        /\ last.total = Len(last.dets)
        /\ \A c \in Classes :
              Get(last.class_counts, c, 0) = CountDets(last.dets, LAMBDA d : d.cls = c)

\* C3: one detection whose center is strictly inside two selected rect zones
\* gives a frame result in which both zones count it once.
C3_BothZones ==
    (/\ last.called
     /\ Len(last.dets) = 1
     /\ Len(selected_zones) = 2
     /\ \A i \in 1..2 : StrictlyInRect(selected_zones[i], Center(last.dets[1].box)[1],
                                       Center(last.dets[1].box)[2]))
    => /\ ~last.raised
       /\ \A i \in 1..2 : last.zone_counts[i] = (last.dets[1].cls :> 1)

\* C4: one detection whose center is exactly on the boundary of the one
\* selected zone gives a frame result with zone count 0 for a rect zone and
\* zone count 1 for a polygon zone.
C4_BoundaryPolicy ==
    (/\ last.called
     /\ Len(last.dets) = 1
     /\ Len(selected_zones) = 1
     /\ OnBoundary(selected_zones[1], Center(last.dets[1].box)[1],
                   Center(last.dets[1].box)[2]))
    => /\ ~last.raised
       /\ Get(last.zone_counts[1], last.dets[1].cls, 0)
             = IF selected_zones[1].type = "rect" THEN 0 ELSE 1

\* a record that cannot be coerced to a Rect or a Polygon: a scalar, or a raw
\* sequence that is neither 4 numbers nor 3 or more points
Uncoercible(z) ==
    \/ z.j = "scalar"
    \/ /\ z.j = "seq"
       /\ ~(Len(z.elems) = 4 /\ AllNum(z.elems))
       /\ ~(Len(z.elems) >= 3 /\ AllPt(z.elems))

\* C5: a run on a readable image or video whose zone file holds exactly one
\* uncoercible record among N valid ones ends with success:true and exactly
\* the N valid zones, in their order.
C5_MalformedDropped ==
    (/\ RunEnded
     /\ args.input \in {"image", "video"}
     /\ args.model_exists /\ args.media_ok /\ args.zfile = "ok"
     /\ Cardinality({i \in 1..Len(zones) : Uncoercible(zones[i])}) = 1)
    => /\ status = "returned"
       /\ Len(out) = 1
       /\ out[1].success
       /\ Len(normalized_zones) = Len(zones) - 1
       /\ normalized_zones
             = NormalizeZones(SelectSeq(zones, LAMBDA z : ~Uncoercible(z))).zones

\* a raw sequence of 3 or more points, or of 4 numbers
RawShape(z) ==
    /\ z.j = "seq"
    /\ \/ (Len(z.elems) >= 3 /\ AllPt(z.elems))
       \/ (Len(z.elems) = 4 /\ AllNum(z.elems))

\* C6: a zone file of raw sequences, each n >= 3 points or 4 numbers, is
\* normalized without an abort to one zone per record: the Polygon with the
\* n vertices in order, or the Rect of the 4 numbers, selected.
C6_RawSequences ==
    (pc # "normalize" /\ \A i \in 1..Len(zones) : RawShape(zones[i]))
    => /\ status # "crashed"
       /\ Len(normalized_zones) = Len(zones)
       /\ \A i \in 1..Len(zones) :
             /\ normalized_zones[i].selected
             /\ IF AllPt(zones[i].elems)
                THEN /\ normalized_zones[i].type = "poly"
                     /\ normalized_zones[i].pts
                           = [k \in 1..Len(zones[i].elems) |-> zones[i].elems[k].v]
                ELSE /\ normalized_zones[i].type = "rect"
                     /\ normalized_zones[i].coords
                           = [k \in 1..4 |-> zones[i].elems[k].v[1]]

\* C7: no run that has ended leaves the capture or the writer open.
C7_Released == RunEnded => (~cap_open /\ ~writer_open)

\* C8: every run given an input path ends by returning after printing
\* exactly one result object, never by an uncaught exception.
C8_StructuredResult ==
    (RunEnded /\ args.input # "none") => (status = "returned" /\ Len(out) = 1)

\* C9: a call in which some selected zone has a non-empty count still
\* returns the frame's counts: the overlay of the zone totals does not abort it.
C9_OverlayIsolated ==
    (last.called /\ \E i \in 1..Len(last.zone_counts) : last.zone_counts[i] # EmptyDict)
    => ~last.raised

\* C10: in every result printed with success:true the total is the sum of
\* the values of class_counts, and after every iteration of the frame loop
\* the running total is the sum of the running overall class counts.
C10_TotalIsSum ==
    /\ \A k \in 1..Len(out) :
          out[k].success => out[k].total = SumValues(out[k].class_counts)
    /\ pc = "loop" =>
          cumulative_total
             = SumValues(IF overall_class_counts.defined THEN overall_class_counts.d
                         ELSE EmptyDict)

\* a video of several frames with detections of both classes has ended with success
C10_Witness ==
    /\ RunEnded
    /\ args.input = "video"
    /\ frames_read >= 2
    /\ Len(out) = 1
    /\ out[1].success
    /\ DOMAIN out[1].class_counts = Classes
    /\ out[1].total >= 3

====
